---- MODULE Spec2Model ----
(***************************************************************************)
(* extract-buildinfo: a run of main() on one input file, modelled at the   *)
(* byte level.  The input file is a sequence of bytes; every fread, fseek, *)
(* ftell, malloc, free, strcmp and printf of src/src/extract-buildinfo.c   *)
(* is a step or an operator below.  Multi-byte fields are decoded the way  *)
(* a little-endian host does when fread fills a struct.                    *)
(***************************************************************************)
EXTENDS Integers, Sequences, FiniteSets, TLC

(***************************************************************************)
(* Bounds of the input enumeration.                                        *)
(***************************************************************************)
MaxSecs == 2
MaxCmds == 2

(***************************************************************************)
(* Program constants: struct sizes and the values the code compares with.  *)
(***************************************************************************)
SizeofMagic == 4
SizeofEhdr == 64
SizeofShdr == 64
SizeofMachHeader == 32
SizeofLoadCommand == 8
SizeofSegmentCommand == 72
SizeofSection == 80
LC_SEGMENT_64 == 25
\* Decoded fields saturate here: TLC integers are 32 bit, and every value at
\* or above Huge lies past the end of every file of the model.
Huge == 4194304

ELFMAG == <<127, 69, 76, 70>>
\* 0xfeedfacf and 0xcffaedfe as a little-endian host holds them in memory.
MH_MAGIC_64 == <<207, 250, 237, 254>>
MH_CIGAM_64 == <<254, 237, 250, 207>>
\* ".buildinfo" and "__buildinfo", the string literals of the two strcmp calls.
DotBuildinfo == <<46, 98, 117, 105, 108, 100, 105, 110, 102, 111>>
UUBuildinfo == <<95, 95, 98, 117, 105, 108, 100, 105, 110, 102, 111>>
DotText == <<46, 116, 101, 120, 116>>
UUText == <<95, 95, 116, 101, 120, 116>>

(***************************************************************************)
(* Bytes.                                                                  *)
(***************************************************************************)
Min(a, b) == IF a < b THEN a ELSE b
Max(a, b) == IF a > b THEN a ELSE b
Zeros(n) == [k \in 1..n |-> 0]
Reverse(s) == [k \in 1..Len(s) |-> s[Len(s) + 1 - k]]

RECURSIVE EncLE(_, _)
EncLE(v, n) == IF n = 0 THEN <<>> ELSE <<v % 256>> \o EncLE(v \div 256, n - 1)

\* An integer field of n bytes as the file's byte order stores it.
Enc(v, n, swapped) == IF swapped THEN Reverse(EncLE(v, n)) ELSE EncLE(v, n)

RECURSIVE DecFrom(_, _, _)
DecFrom(s, k, acc) ==
  IF k = 0 THEN acc ELSE DecFrom(s, k - 1, Min(acc * 256 + s[k], Huge))

\* What a little-endian host finds in an integer field that fread filled
\* with the bytes s.
LE(s) == DecFrom(s, Len(s), 0)

Field(rec, off, n) == LE(SubSeq(rec, off + 1, off + n))

(***************************************************************************)
(* Input files.  A file is described by its structure (the sections or     *)
(* load commands it holds), the payload B of its build-info section and at *)
(* most one fault, and is serialised to the bytes the program reads.       *)
(***************************************************************************)
\* Payloads of the build-info section: empty, text, a lone 0 byte, text with
\* a 0 byte inside.
Payloads == {<<>>, <<65>>, <<65, 66>>, <<0>>, <<65, 0, 66>>}
\* Content of a second build-info section and of a __text/.text section.
B2 == <<90, 50>>
TextBytes == <<84>>
SecKinds == {"text", "binfo", "binfo2"}

RECURSIVE SeqsUpTo(_, _)
SeqsUpTo(S, n) ==
  IF n = 0 THEN {<<>>}
  ELSE LET shorter == SeqsUpTo(S, n - 1)
       IN  shorter \cup {Append(q, x) : q \in {r \in shorter : Len(r) = n - 1}, x \in S}

IsBinfo(kind) == kind \in {"binfo", "binfo2"}
Content(kind, B) ==
  CASE kind = "binfo" -> B
    [] kind = "binfo2" -> B2
    [] OTHER -> TextBytes

\* The content of the first build-info section of a list of section kinds, in
\* list order: the bytes a correct extraction returns.
RECURSIVE FirstBinfo(_, _)
FirstBinfo(kinds, B) ==
  IF kinds = <<>> THEN <<"none">>
  ELSE IF IsBinfo(Head(kinds)) THEN <<"some", Content(Head(kinds), B)>>
  ELSE FirstBinfo(Tail(kinds), B)

\* ---- ELF64 ----
ElfFaults ==
  {"none", "shstrndx_eq", "shstrndx_far", "shnum_zero", "name_at_len", "name_past",
   "noterm", "empty_strtab", "trunc", "shnum_more", "short"}

\* The section-name string table: "\0.text\0.buildinfo\0".
ElfBlob(fault) ==
  <<0>> \o DotText \o <<0>> \o DotBuildinfo \o (IF fault = "noterm" THEN <<>> ELSE <<0>>)

Elf64_Ehdr(e_shoff, e_shnum, e_shstrndx) ==
  ELFMAG \o Zeros(36) \o EncLE(e_shoff, 8) \o Zeros(12)
    \o EncLE(e_shnum, 2) \o EncLE(e_shstrndx, 2)

Elf64_Shdr(sh_name, sh_offset, sh_size) ==
  EncLE(sh_name, 4) \o Zeros(20) \o EncLE(sh_offset, 8) \o EncLE(sh_size, 8) \o Zeros(24)

RECURSIVE Concat(_)
Concat(ss) == IF ss = <<>> THEN <<>> ELSE Head(ss) \o Concat(Tail(ss))

\* in.secs: the kinds of the sections, in table order; the string table's own
\* header is the first or the last entry of the table.
ElfTableKinds(in) ==
  IF in.strtabFirst THEN <<"strtab">> \o in.secs ELSE in.secs \o <<"strtab">>

ElfFile(in) ==
  LET kinds == ElfTableKinds(in)
      n == Len(kinds)
      blob == ElfBlob(in.fault)
      blobOff == SizeofEhdr + SizeofShdr * n
      textOff == blobOff + Len(blob)
      b2Off == textOff + Len(TextBytes)
      bOff == b2Off + Len(B2)
      strndx == IF in.strtabFirst THEN 0 ELSE n - 1
      textName ==
        CASE in.fault = "name_at_len" -> Len(blob)
          [] in.fault = "name_past" -> Len(blob) + 3
          [] OTHER -> 1
      shdr(kind) ==
        CASE kind = "strtab" ->
               Elf64_Shdr(0, blobOff, IF in.fault = "empty_strtab" THEN 0 ELSE Len(blob))
          [] kind = "text" -> Elf64_Shdr(textName, textOff, Len(TextBytes))
          [] kind = "binfo2" -> Elf64_Shdr(7, b2Off, Len(B2))
          [] OTHER -> Elf64_Shdr(7, bOff, Len(in.B))
      ehdr == Elf64_Ehdr(SizeofEhdr,
                         CASE in.fault = "shnum_more" -> n + 1
                           [] in.fault = "shnum_zero" -> 0
                           [] OTHER -> n,
                         CASE in.fault = "shstrndx_eq" -> n
                           [] in.fault = "shstrndx_far" -> 65535
                           [] OTHER -> strndx)
      whole == ehdr \o Concat([k \in 1..n |-> shdr(kinds[k])])
                 \o blob \o TextBytes \o B2 \o in.B
  IN  CASE in.fault = "trunc" -> SubSeq(whole, 1, Len(whole) - 1)
        [] in.fault = "short" -> SubSeq(whole, 1, 10)
        [] OTHER -> whole

ElfInputs ==
  {in \in [fmt : {"elf"}, secs : SeqsUpTo(SecKinds, MaxSecs), strtabFirst : BOOLEAN,
           B : Payloads, fault : ElfFaults] :
     /\ in.fault \in {"name_at_len", "name_past"} => \E k \in 1..Len(in.secs) : in.secs[k] = "text"
     \* a fault is tried with one payload; every payload is tried without fault
     /\ in.fault # "none" => in.B = <<65, 66>>}

\* ---- Mach-O 64 ----
MachoFaults == {"none", "nsects_more", "ncmds_more", "trunc", "short"}
\* What a load command is: "other" (an LC_DYSYMTAB, 80 bytes) or a segment with
\* sections.
SectLists ==
  {<<>>, <<"text">>, <<"binfo">>, <<"text", "binfo">>, <<"binfo2", "binfo">>}
CmdKinds == {[seg |-> FALSE, sects |-> <<>>]} \cup {[seg |-> TRUE, sects |-> s] : s \in SectLists}

Name16(name) == name \o Zeros(16 - Len(name))

section_64(kind, size, offset, sw) ==
  Name16(IF kind = "text" THEN UUText ELSE UUBuildinfo) \o Name16(UUText)
    \o Enc(0, 8, sw) \o Enc(size, 8, sw) \o Enc(offset, 4, sw) \o Zeros(28)

LC_DYSYMTAB == 11
SizeofDysymtabCommand == 80

\* The bytes a command occupies in the file: its cmdsize.
CmdBytes(c) ==
  IF ~c.seg THEN SizeofDysymtabCommand
  ELSE SizeofSegmentCommand + SizeofSection * Len(c.sects)

RECURSIVE SumCmdBytes(_)
SumCmdBytes(cmds) == IF cmds = <<>> THEN 0 ELSE CmdBytes(Head(cmds)) + SumCmdBytes(Tail(cmds))

MachoFile(in) ==
  LET sw == in.swapped
      n == Len(in.cmds)
      textOff == SizeofMachHeader + SumCmdBytes(in.cmds)
      b2Off == textOff + Len(TextBytes)
      bOff == b2Off + Len(B2)
      sect(kind) ==
        CASE kind = "text" -> section_64(kind, Len(TextBytes), textOff, sw)
          [] kind = "binfo2" -> section_64(kind, Len(B2), b2Off, sw)
          [] OTHER -> section_64(kind, Len(in.B), bOff, sw)
      cmd(c) ==
        IF ~c.seg
        THEN Enc(LC_DYSYMTAB, 4, sw) \o Enc(CmdBytes(c), 4, sw)
               \o Zeros(SizeofDysymtabCommand - SizeofLoadCommand)
        ELSE Enc(LC_SEGMENT_64, 4, sw) \o Enc(CmdBytes(c), 4, sw)
               \o Name16(UUText) \o Zeros(40)
               \o Enc(Len(c.sects) + (IF in.fault = "nsects_more" THEN 1 ELSE 0), 4, sw)
               \o Zeros(4)
               \o Concat([k \in 1..Len(c.sects) |-> sect(c.sects[k])])
      mh == (IF sw THEN MH_CIGAM_64 ELSE MH_MAGIC_64) \o Zeros(12)
              \o Enc(IF in.fault = "ncmds_more" THEN n + 1 ELSE n, 4, sw)
              \o Enc(SumCmdBytes(in.cmds), 4, sw) \o Zeros(8)
      whole == mh \o Concat([k \in 1..n |-> cmd(in.cmds[k])]) \o TextBytes \o B2 \o in.B
  IN  CASE in.fault = "trunc" -> SubSeq(whole, 1, Len(whole) - 1)
        [] in.fault = "short" -> SubSeq(whole, 1, 10)
        [] OTHER -> whole

MachoInputs ==
  {in \in [fmt : {"macho"}, cmds : SeqsUpTo(CmdKinds, MaxCmds), swapped : BOOLEAN,
           B : Payloads, fault : MachoFaults] :
     in.fault # "none" => in.B = <<65, 66>>}

\* The section kinds of a Mach-O input in walk order.
MachoWalkKinds(in) == Concat([k \in 1..Len(in.cmds) |-> in.cmds[k].sects])

\* ---- files of neither format ----
RawInputs ==
  {[fmt |-> "raw", bytes |-> b] :
     b \in {<<>>, <<127, 69, 76>>, <<1, 2, 3, 4>>, <<70, 76, 69, 127, 0>>,
            <<207, 250, 237, 255, 0, 0>>}}

Inputs == ElfInputs \cup MachoInputs \cup RawInputs

Serialize(in) ==
  CASE in.fmt = "elf" -> ElfFile(in)
    [] in.fmt = "macho" -> MachoFile(in)
    [] OTHER -> in.bytes

(***************************************************************************)
(* The C library calls the program makes.                                  *)
(***************************************************************************)
\* fread(ptr, size, nmemb, f) at file position p: the number of complete
\* items read (0 when size or nmemb is 0), and the position afterwards.
fread(fl, p, size, nmemb) ==
  IF size = 0 \/ nmemb = 0 THEN 0
  ELSE Min(nmemb, Max(Len(fl) - p, 0) \div size)

fread_pos(fl, p, size, nmemb) ==
  IF size = 0 \/ nmemb = 0 \/ p >= Len(fl) THEN p
  ELSE Min(p + size * nmemb, Len(fl))

ReadBytes(fl, p, n) == SubSeq(fl, p + 1, p + n)

\* strcmp(buf + off, lit): "eq", "ne", or "oob" when the comparison reaches a
\* byte outside buf before it is decided.
RECURSIVE strcmp_at(_, _, _, _)
strcmp_at(buf, off, lit, k) ==
  IF off + k >= Len(buf) THEN "oob"
  ELSE LET c1 == buf[off + k + 1]
           c2 == IF k < Len(lit) THEN lit[k + 1] ELSE 0
       IN  IF c1 # c2 THEN "ne"
           ELSE IF c1 = 0 THEN "eq"
           ELSE strcmp_at(buf, off, lit, k + 1)

strcmp(buf, off, lit) == strcmp_at(buf, off, lit, 0)

\* What printf("%s", data) writes: the bytes of data before its first 0 byte.
RECURSIVE printf_s(_)
printf_s(bytes) ==
  IF bytes = <<>> \/ Head(bytes) = 0 THEN <<>>
  ELSE <<Head(bytes)>> \o printf_s(Tail(bytes))

(***************************************************************************)
(* State.                                                                  *)
(***************************************************************************)
VARIABLES
  apple,      \* the build: __APPLE__ defined (Mach-O decoder) or not (ELF decoder)
  input,      \* the description of the file at argv[1]
  file,       \* its bytes
  pc,         \* where the run is
  argc,
  f,          \* the FILE *: "null", "open" or "closed"
  fcloses,    \* how many times fclose(f) was called
  fpos,       \* the file position of f
  magic,
  result,     \* the extractor's return value
  status,     \* the exit status, once pc = "exited"
  stdout,     \* the bytes written to standard output
  stderr,     \* the diagnostics written to standard error
  ehdr, sections, shstrtab, strtab,   \* extract_elf_buildinfo's locals
  mh, pos, lc, seg, j, sect,          \* extract_macho_buildinfo's locals
  i, data,                            \* locals both extractors have
  heap,       \* each malloc'd buffer: "none", "live" or "freed"
  heapErr,    \* a free of a buffer that is not live, or a use of one
  nomem,      \* a malloc returned NULL
  entered,    \* the extractors that were called
  oob,        \* the out-of-bounds reads that happened: "index", "name"
  walk,       \* the load commands read: [start, cmd, cmdsize]
  decoded     \* the file ranges decoded as segment or section records

fileVars == <<input, file>>
mainVars == <<argc, f, fcloses, magic, status>>
outVars == <<stdout, stderr, result>>
elfVars == <<ehdr, sections, shstrtab, strtab>>
machoVars == <<mh, pos, lc, seg, j, sect>>
heapVars == <<heap, heapErr, nomem>>
ghostVars == <<entered, oob, walk, decoded>>
vars == <<apple, fileVars, pc, mainVars, fpos, outVars, elfVars, machoVars,
          i, data, heapVars, ghostVars>>

NoShdr == [sh_name |-> 0, sh_offset |-> 0, sh_size |-> 0]

Init ==
  /\ apple \in BOOLEAN
  /\ input = [fmt |-> "none"]
  /\ file = <<>>
  /\ pc = "main"
  /\ argc = 0
  /\ f = "null"
  /\ fcloses = 0
  /\ fpos = 0
  /\ magic = <<>>
  /\ result = 0
  /\ status = 0
  /\ stdout = <<>>
  /\ stderr = <<>>
  /\ ehdr = [e_shoff |-> 0, e_shnum |-> 0, e_shstrndx |-> 0]
  /\ sections = <<>>
  /\ shstrtab = NoShdr
  /\ strtab = <<>>
  /\ mh = [ncmds |-> 0]
  /\ pos = 0
  /\ lc = [cmd |-> 0, cmdsize |-> 0]
  /\ seg = [nsects |-> 0]
  /\ j = 0
  /\ sect = [sectname |-> <<>>, size |-> 0, offset |-> 0]
  /\ i = 0
  /\ data = <<>>
  /\ heap = [b \in {"sections", "strtab", "data"} |-> "none"]
  /\ heapErr = FALSE
  /\ nomem = FALSE
  /\ entered = {}
  /\ oob = {}
  /\ walk = <<>>
  /\ decoded = {}

(***************************************************************************)
(* malloc and free.                                                        *)
(***************************************************************************)
\* free(b), for each b of bufs in turn.
RECURSIVE Freed(_, _)
Freed(h, bufs) ==
  IF bufs = <<>> THEN h ELSE Freed([h EXCEPT ![Head(bufs)] = "freed"], Tail(bufs))

FreeErr(h, bufs) ==
  \/ \E k \in 1..Len(bufs) : h[bufs[k]] # "live"
  \/ \E k, l \in 1..Len(bufs) : k # l /\ bufs[k] = bufs[l]

\* ElfFrees with the free(sections) of lines 86 and 65 forgotten.
ElfFrees_leak(stage) ==
  CASE stage = "shdrs" -> <<"sections">>
    [] stage = "strtab_nomem" -> <<"sections">>
    [] stage = "strtab" -> <<"strtab">>
    [] stage = "data_nomem" -> <<"strtab", "sections">>
    [] stage = "data" -> <<"data", "strtab">>
    [] stage = "notfound" -> <<"strtab", "sections">>

\* The buffers a failure path of extract_elf_buildinfo frees, by how far the
\* function got.
ElfFrees(stage) ==
  CASE stage = "shdrs" -> <<"sections">>
    [] stage = "strtab_nomem" -> <<"sections">>
    [] stage = "strtab" -> <<"strtab", "sections">>
    [] stage = "data_nomem" -> <<"strtab", "sections">>
    [] stage = "data" -> <<"data", "strtab", "sections">>
    [] stage = "notfound" -> <<"strtab", "sections">>

\* A read or write of a buffer that is not live.
UseErr(h, bufs) == \E b \in bufs : h[b] # "live"

\* return r from an extractor: msg goes to stderr, then each buffer of bufs is
\* free()d; h is the heap and err the heap errors at that point.
Return(h, err, r, msg, bufs) ==
  /\ result' = r
  /\ stderr' = IF msg = "" THEN stderr ELSE Append(stderr, msg)
  /\ heap' = Freed(h, bufs)
  /\ heapErr' = (err \/ FreeErr(h, bufs))
  /\ pc' = "main_ret"

\* The process is killed by a signal (an access outside mapped memory).
Crash ==
  /\ pc' = "crashed"
  /\ UNCHANGED <<result, stderr, heap, heapErr>>

(***************************************************************************)
(* main                                                                    *)
(***************************************************************************)
\* lines 190-196
main_argc ==
  /\ pc = "main"
  /\ \E n \in 1..3 :
       /\ argc' = n
       /\ IF n # 2
          THEN /\ stderr' = Append(stderr, "Usage")
               /\ status' = 1
               /\ pc' = "exited"
          ELSE /\ pc' = "fopen"
               /\ UNCHANGED <<stderr, status>>
  /\ UNCHANGED <<apple, fileVars, f, fcloses, magic, fpos, stdout, result, elfVars,
                 machoVars, i, data, heapVars, ghostVars>>

\* lines 198-202
main_fopen ==
  /\ pc = "fopen"
  /\ \E in \in Inputs, ok \in BOOLEAN :
       IF ok
       THEN /\ input' = in
            /\ file' = Serialize(in)
            /\ f' = "open"
            /\ pc' = "magic"
            /\ UNCHANGED <<stderr, status>>
       ELSE /\ stderr' = Append(stderr, "fopen")
            /\ status' = 1
            /\ pc' = "exited"
            /\ UNCHANGED <<input, file, f>>
  /\ fpos' = 0
  /\ UNCHANGED <<apple, argc, fcloses, magic, stdout, result, elfVars, machoVars,
                 i, data, heapVars, ghostVars>>

\* Dispatch with the magic comparisons of lines 213 and 220 dropped.
Dispatch_nocheck(m) == IF apple THEN "macho" ELSE "elf"

\* The extractor main calls for a magic word, or "none".
Dispatch(m) ==
  IF apple
  THEN IF m = MH_MAGIC_64 \/ m = MH_CIGAM_64 THEN "macho" ELSE "none"
  ELSE IF m = ELFMAG THEN "elf" ELSE "none"

\* lines 204-229, up to the call of the extractor
main_magic ==
  /\ pc = "magic"
  /\ LET n == fread(file, fpos, SizeofMagic, 1)
         m == ReadBytes(file, fpos, SizeofMagic * n)
         to == Dispatch(m)
     IN  /\ fpos' = fread_pos(file, fpos, SizeofMagic, 1)
         /\ magic' = m
         /\ IF n # 1
            THEN /\ stderr' = Append(stderr, "Failed to read file magic")
                 /\ f' = "closed" /\ fcloses' = fcloses + 1
                 /\ status' = 1 /\ pc' = "exited"
                 /\ UNCHANGED entered
            ELSE IF to = "none"
            THEN /\ stderr' = Append(stderr, "Unknown or unsupported binary format")
                 /\ f' = "closed" /\ fcloses' = fcloses + 1
                 /\ status' = 1 /\ pc' = "exited"
                 /\ UNCHANGED entered
            ELSE /\ entered' = entered \cup {to}
                 /\ pc' = IF to = "elf" THEN "elf_ehdr" ELSE "macho_mh"
                 /\ UNCHANGED <<stderr, f, fcloses, status>>
  /\ UNCHANGED <<apple, fileVars, argc, stdout, result, elfVars, machoVars, i, data,
                 heapVars, oob, walk, decoded>>

\* lines 215-216 and 222-223: fclose(f); return result;
main_ret ==
  /\ pc = "main_ret"
  /\ f' = "closed" /\ fcloses' = fcloses + 1
  /\ status' = result
  /\ pc' = "exited"
  /\ UNCHANGED <<apple, fileVars, argc, magic, fpos, outVars, elfVars, machoVars,
                 i, data, heapVars, ghostVars>>

(***************************************************************************)
(* extract_elf_buildinfo (the build without __APPLE__)                     *)
(***************************************************************************)
ParseShdr(rec) ==
  [sh_name |-> Field(rec, 0, 4), sh_offset |-> Field(rec, 24, 8),
   sh_size |-> Field(rec, 32, 8)]

\* lines 25-37: rewind, read the header, memcmp its e_ident with ELFMAG
elf_ehdr ==
  /\ pc = "elf_ehdr"
  /\ LET n == fread(file, 0, SizeofEhdr, 1)
         rec == ReadBytes(file, 0, SizeofEhdr * n)
     IN  /\ fpos' = fread_pos(file, 0, SizeofEhdr, 1)
         /\ IF n # 1
            THEN /\ Return(heap, heapErr, 1, "Failed to read ELF header", <<>>)
                 /\ UNCHANGED ehdr
            ELSE IF SubSeq(rec, 1, Len(ELFMAG)) # ELFMAG
            THEN /\ Return(heap, heapErr, 1, "Not a valid ELF file", <<>>)
                 /\ UNCHANGED ehdr
            ELSE /\ ehdr' = [e_shoff |-> Field(rec, 40, 8), e_shnum |-> Field(rec, 60, 2),
                             e_shstrndx |-> Field(rec, 62, 2)]
                 /\ pc' = "elf_shdrs"
                 /\ UNCHANGED <<result, stderr, heap, heapErr>>
  /\ UNCHANGED <<apple, fileVars, mainVars, stdout, sections, shstrtab, strtab,
                 machoVars, i, data, nomem, ghostVars>>

\* lines 39-51: fseek to e_shoff, malloc and read e_shnum section headers
elf_shdrs ==
  /\ pc = "elf_shdrs"
  /\ \E ok \in BOOLEAN :
       LET h == [heap EXCEPT !["sections"] = "live"]
           n == fread(file, ehdr.e_shoff, SizeofShdr, ehdr.e_shnum)
       IN  IF ~ok
           THEN /\ nomem' = TRUE
                /\ Return(heap, heapErr, 1, "Memory allocation failed", <<>>)
                /\ UNCHANGED <<fpos, sections>>
           ELSE /\ nomem' = nomem
                /\ fpos' = fread_pos(file, ehdr.e_shoff, SizeofShdr, ehdr.e_shnum)
                /\ IF n # ehdr.e_shnum
                   THEN /\ Return(h, heapErr, 1, "Failed to read section headers",
                                  ElfFrees("shdrs"))
                        /\ UNCHANGED sections
                   ELSE /\ sections' =
                             [k \in 1..n |->
                                ParseShdr(ReadBytes(file, ehdr.e_shoff + SizeofShdr * (k - 1),
                                                    SizeofShdr))]
                        /\ heap' = h
                        /\ pc' = "elf_strtab"
                        /\ UNCHANGED <<result, stderr, heapErr>>
  /\ UNCHANGED <<apple, fileVars, mainVars, stdout, ehdr, shstrtab, strtab,
                 machoVars, i, data, ghostVars>>

\* What &sections[ndx] can hold when ndx is outside the table: bytes of the
\* heap after the table.
GarbageShdrs ==
  {NoShdr, [sh_name |-> 0, sh_offset |-> 0, sh_size |-> SizeofMagic]}

\* The values sections[ndx] can yield: the entry, or anything when ndx is
\* outside the e_shnum entries read.
ShdrAt(tbl, ndx) == IF ndx < Len(tbl) THEN {tbl[ndx + 1]} ELSE GarbageShdrs

\* lines 53-68: shstrtab = &sections[e_shstrndx]; malloc and read the string table
elf_strtab ==
  /\ pc = "elf_strtab"
  /\ LET inb == ehdr.e_shstrndx < Len(sections)
     IN  /\ oob' = IF inb THEN oob ELSE oob \cup {"index"}
         /\ \E sh \in ShdrAt(sections, ehdr.e_shstrndx), crash \in BOOLEAN, ok \in BOOLEAN :
              LET h == [heap EXCEPT !["strtab"] = "live"]
                  err == heapErr \/ UseErr(heap, {"sections"})
                  n == fread(file, sh.sh_offset, sh.sh_size, 1)
              IN  /\ crash => ~inb /\ ok
                  /\ IF crash
                     THEN /\ Crash
                          /\ UNCHANGED <<shstrtab, strtab, fpos, i, nomem>>
                     ELSE /\ shstrtab' = sh
                          /\ IF ~ok
                             THEN /\ nomem' = TRUE
                                  /\ Return(heap, err, 1, "Memory allocation failed",
                                            ElfFrees("strtab_nomem"))
                                  /\ UNCHANGED <<strtab, fpos, i>>
                             ELSE /\ nomem' = nomem
                                  /\ fpos' = fread_pos(file, sh.sh_offset, sh.sh_size, 1)
                                  /\ IF n # 1
                                     THEN /\ Return(h, err, 1, "Failed to read string table",
                                                    ElfFrees("strtab"))
                                          /\ UNCHANGED <<strtab, i>>
                                     ELSE /\ strtab' = ReadBytes(file, sh.sh_offset, sh.sh_size)
                                          /\ i' = 0
                                          /\ heap' = h
                                          /\ heapErr' = err
                                          /\ pc' = "elf_scan"
                                          /\ UNCHANGED <<result, stderr>>
  /\ UNCHANGED <<apple, fileVars, mainVars, stdout, ehdr, sections, machoVars, data,
                 entered, walk, decoded>>

\* lines 70-73 and 99-104: one turn of the scan loop, or its end
elf_scan ==
  /\ pc = "elf_scan"
  /\ IF i >= ehdr.e_shnum
     THEN /\ Return(heap, heapErr, 1, "No .buildinfo section found in binary",
                    ElfFrees("notfound"))
          /\ UNCHANGED <<i, oob>>
     ELSE LET c == strcmp(strtab, sections[i + 1].sh_name, DotBuildinfo)
              err == heapErr \/ UseErr(heap, {"sections", "strtab"})
          IN  /\ oob' = IF c = "oob" THEN oob \cup {"name"} ELSE oob
              /\ \E out \in IF c = "oob" THEN {"crash", "eq", "ne"} ELSE {c} :
                   IF out = "crash"
                   THEN Crash /\ UNCHANGED i
                   ELSE /\ pc' = IF out = "eq" THEN "elf_data" ELSE "elf_scan"
                        /\ i' = IF out = "eq" THEN i ELSE i + 1
                        /\ heapErr' = err
                        /\ UNCHANGED <<result, stderr, heap>>
  /\ UNCHANGED <<apple, fileVars, mainVars, fpos, stdout, elfVars, machoVars, data,
                 nomem, entered, walk, decoded>>

\* lines 74-97: malloc, read, terminate and print the matched section
elf_data ==
  /\ pc = "elf_data"
  /\ \E ok \in BOOLEAN :
       LET sh == sections[i + 1]
           h == [heap EXCEPT !["data"] = "live"]
           err == heapErr \/ UseErr(heap, {"sections"})
           n == fread(file, sh.sh_offset, sh.sh_size, 1)
           d == ReadBytes(file, sh.sh_offset, sh.sh_size) \o <<0>>
       IN  IF ~ok
           THEN /\ nomem' = TRUE
                /\ Return(heap, err, 1, "Memory allocation failed", ElfFrees("data_nomem"))
                /\ UNCHANGED <<fpos, data, stdout>>
           ELSE /\ nomem' = nomem
                /\ fpos' = fread_pos(file, sh.sh_offset, sh.sh_size, 1)
                /\ IF n # 1
                   THEN /\ Return(h, err, 1, "Failed to read .buildinfo section",
                                  ElfFrees("data"))
                        /\ UNCHANGED <<data, stdout>>
                   ELSE /\ data' = d
                        /\ stdout' = stdout \o printf_s(d)
                        /\ Return(h, err \/ UseErr(h, {"data"}), 0, "",
                                  <<"data", "strtab", "sections">>)
  /\ UNCHANGED <<apple, fileVars, mainVars, elfVars, machoVars, i, ghostVars>>

(***************************************************************************)
(* extract_macho_buildinfo (the build with __APPLE__)                      *)
(***************************************************************************)
\* lines 113-125: rewind, read the header, check its magic
macho_mh ==
  /\ pc = "macho_mh"
  /\ LET n == fread(file, 0, SizeofMachHeader, 1)
         rec == ReadBytes(file, 0, SizeofMachHeader * n)
         m == SubSeq(rec, 1, SizeofMagic)
     IN  /\ fpos' = fread_pos(file, 0, SizeofMachHeader, 1)
         /\ IF n # 1
            THEN /\ Return(heap, heapErr, 1, "Failed to read Mach-O header", <<>>)
                 /\ UNCHANGED <<mh, i>>
            ELSE IF m # MH_MAGIC_64 /\ m # MH_CIGAM_64
            THEN /\ Return(heap, heapErr, 1, "Not a valid 64-bit Mach-O file", <<>>)
                 /\ UNCHANGED <<mh, i>>
            ELSE /\ mh' = [ncmds |-> Field(rec, 16, 4)]
                 /\ i' = 0
                 /\ pc' = "macho_lc"
                 /\ UNCHANGED <<result, stderr, heap, heapErr>>
  /\ UNCHANGED <<apple, fileVars, mainVars, stdout, elfVars, pos, lc, seg, j, sect,
                 data, nomem, ghostVars>>

\* lines 128-137 and 182-183: the loop test, pos = ftell(f), read the
\* command's cmd and cmdsize
macho_lc ==
  /\ pc = "macho_lc"
  /\ IF i >= mh.ncmds
     THEN /\ Return(heap, heapErr, 1, "No __buildinfo section found in binary", <<>>)
          /\ UNCHANGED <<pos, lc, fpos, walk>>
     ELSE LET n == fread(file, fpos, SizeofLoadCommand, 1)
              rec == ReadBytes(file, fpos, SizeofLoadCommand * n)
              c == [cmd |-> Field(rec, 0, 4), cmdsize |-> Field(rec, 4, 4)]
          IN  /\ pos' = fpos
              /\ fpos' = fread_pos(file, fpos, SizeofLoadCommand, 1)
              /\ IF n # 1
                 THEN /\ Return(heap, heapErr, 1, "Failed to read load command", <<>>)
                      /\ UNCHANGED <<lc, walk>>
                 ELSE /\ lc' = c
                      /\ walk' = Append(walk, [start |-> fpos, cmd |-> c.cmd,
                                               cmdsize |-> c.cmdsize])
                      /\ pc' = IF c.cmd = LC_SEGMENT_64 THEN "macho_seg" ELSE "macho_next"
                      /\ UNCHANGED <<result, stderr, heap, heapErr>>
  /\ UNCHANGED <<apple, fileVars, mainVars, stdout, elfVars, mh, seg, j, sect, i, data,
                 nomem, entered, oob, decoded>>

\* lines 138-144: seek back to pos and read the command as a segment
macho_seg ==
  /\ pc = "macho_seg"
  /\ LET n == fread(file, pos, SizeofSegmentCommand, 1)
         rec == ReadBytes(file, pos, SizeofSegmentCommand * n)
     IN  /\ fpos' = fread_pos(file, pos, SizeofSegmentCommand, 1)
         /\ IF n # 1
            THEN /\ Return(heap, heapErr, 1, "Failed to read segment command", <<>>)
                 /\ UNCHANGED <<seg, j, decoded>>
            ELSE /\ seg' = [nsects |-> Field(rec, 64, 4)]
                 /\ j' = 0
                 /\ decoded' = decoded \cup
                      {[at |-> pos, len |-> SizeofSegmentCommand, what |-> "segment"]}
                 /\ pc' = "macho_sect"
                 /\ UNCHANGED <<result, stderr, heap, heapErr>>
  /\ UNCHANGED <<apple, fileVars, mainVars, stdout, elfVars, mh, pos, lc, sect, i, data,
                 nomem, entered, oob, walk>>

\* lines 147-155 and 176-177: one turn of the section loop, or its end
macho_sect ==
  /\ pc = "macho_sect"
  /\ IF j >= seg.nsects
     THEN /\ pc' = "macho_next"
          /\ UNCHANGED <<fpos, sect, j, decoded, result, stderr, heap, heapErr>>
     ELSE LET n == fread(file, fpos, SizeofSection, 1)
              rec == ReadBytes(file, fpos, SizeofSection * n)
          IN  /\ fpos' = fread_pos(file, fpos, SizeofSection, 1)
              /\ IF n # 1
                 THEN /\ Return(heap, heapErr, 1, "Failed to read section", <<>>)
                      /\ UNCHANGED <<sect, j, decoded>>
                 ELSE /\ sect' = [sectname |-> SubSeq(rec, 1, 16),
                                  size |-> Field(rec, 40, 8), offset |-> Field(rec, 48, 4)]
                      /\ decoded' = decoded \cup
                           {[at |-> fpos, len |-> SizeofSection, what |-> "section"]}
                      /\ IF strcmp(rec, 0, UUBuildinfo) = "eq"
                         THEN pc' = "macho_data" /\ UNCHANGED j
                         ELSE pc' = "macho_sect" /\ j' = j + 1
                      /\ UNCHANGED <<result, stderr, heap, heapErr>>
  /\ UNCHANGED <<apple, fileVars, mainVars, stdout, elfVars, mh, pos, lc, seg, i, data,
                 nomem, entered, oob, walk>>

\* lines 156-174: malloc, read, terminate and print the matched section
macho_data ==
  /\ pc = "macho_data"
  /\ \E ok \in BOOLEAN :
       LET h == [heap EXCEPT !["data"] = "live"]
           n == fread(file, sect.offset, sect.size, 1)
           d == ReadBytes(file, sect.offset, sect.size) \o <<0>>
       IN  IF ~ok
           THEN /\ nomem' = TRUE
                /\ Return(heap, heapErr, 1, "Memory allocation failed", <<>>)
                /\ UNCHANGED <<fpos, data, stdout>>
           ELSE /\ nomem' = nomem
                /\ fpos' = fread_pos(file, sect.offset, sect.size, 1)
                /\ IF n # 1
                   THEN /\ Return(h, heapErr, 1, "Failed to read __buildinfo section",
                                  <<"data">>)
                        /\ UNCHANGED <<data, stdout>>
                   ELSE /\ data' = d
                        /\ stdout' = stdout \o printf_s(d)
                        /\ Return(h, heapErr \/ UseErr(h, {"data"}), 0, "", <<"data">>)
  /\ UNCHANGED <<apple, fileVars, mainVars, elfVars, machoVars, i, ghostVars>>

\* The position line 179 seeks to.
NextCommand(start, cmdsize) == start + cmdsize

\* lines 179-180 and the i++ of line 128
macho_next ==
  /\ pc = "macho_next"
  /\ fpos' = NextCommand(pos, lc.cmdsize)
  /\ i' = i + 1
  /\ pc' = "macho_lc"
  /\ UNCHANGED <<apple, fileVars, mainVars, outVars, elfVars, machoVars, data,
                 heapVars, ghostVars>>

Next ==
  \/ main_argc
  \/ main_fopen
  \/ main_magic
  \/ main_ret
  \/ elf_ehdr
  \/ elf_shdrs
  \/ elf_strtab
  \/ elf_scan
  \/ elf_data
  \/ macho_mh
  \/ macho_lc
  \/ macho_seg
  \/ macho_sect
  \/ macho_data
  \/ macho_next

Spec == Init /\ [][Next]_vars

(***************************************************************************)
(* Properties.                                                             *)
(***************************************************************************)
Terminated == pc \in {"exited", "crashed"}
ValidElf == input.fmt = "elf" /\ input.fault = "none"
ValidMacho == input.fmt = "macho" /\ input.fault = "none"
\* The content of the section a correct extraction returns, if there is one.
ElfExpected == FirstBinfo(ElfTableKinds(input), input.B)
MachoExpected == FirstBinfo(MachoWalkKinds(input), input.B)
HasZero(bytes) == \E k \in 1..Len(bytes) : bytes[k] = 0
Succeeded(bytes) == pc = "exited" /\ status = 0 /\ stdout = bytes
Failed == pc = "exited" /\ status = 1 /\ stderr # <<>> /\ stdout = <<>>

\* C1: in the ELF build, a run on a valid ELF64 file whose .buildinfo section
\* holds the bytes B (any byte values, 0 included; here B is not empty, the
\* empty B is C2) writes exactly B to standard output and exits with status 0.
C1_ElfWritesExactBytes ==
  (Terminated /\ ~apple /\ ValidElf /\ ~nomem /\ ElfExpected[1] = "some"
     /\ ElfExpected[2] # <<>>)
    => Succeeded(ElfExpected[2])

\* C2: in the ELF build, a .buildinfo section of declared size 0 in a valid
\* ELF64 file is extracted with success: empty output, status 0, no error.
C2_ElfEmptySectionSucceeds ==
  (Terminated /\ ~apple /\ ValidElf /\ ~nomem /\ ElfExpected = <<"some", <<>>>>)
    => Succeeded(<<>>) /\ stderr = <<>>

\* The number of load commands up to and including the first one that holds a
\* build-info section.
RECURSIVE FirstBinfoCmd(_)
FirstBinfoCmd(cmds) ==
  IF cmds = <<>> THEN 0
  ELSE IF \E k \in 1..Len(Head(cmds).sects) : IsBinfo(Head(cmds).sects[k]) THEN 1
  ELSE 1 + FirstBinfoCmd(Tail(cmds))

\* C3: in the Mach-O build, a run on a valid Mach-O64 file with __buildinfo
\* sections returns exactly the bytes of the first one in load-command order,
\* section order inside a segment, and reads no load command after it (stated
\* for files in the host's byte order; the opposite order is C4).
C3_MachoFirstMatch ==
  (Terminated /\ apple /\ ValidMacho /\ ~input.swapped /\ ~nomem
     /\ MachoExpected[1] = "some")
    => Succeeded(MachoExpected[2]) /\ Len(walk) = FirstBinfoCmd(input.cmds)

\* C4: in the Mach-O build, a valid file in the byte order opposite to the
\* host's yields its __buildinfo section's bytes as a native-order file does
\* (stated for the payloads a native-order file yields: not empty, no 0 byte).
C4_MachoOppositeOrder ==
  (Terminated /\ apple /\ ValidMacho /\ input.swapped /\ ~nomem
     /\ MachoExpected[1] = "some" /\ MachoExpected[2] # <<>> /\ ~HasZero(MachoExpected[2]))
    => Succeeded(MachoExpected[2])

\* The first 4 bytes of the file are neither the ELF magic nor a 64-bit Mach-O
\* magic.
UnknownMagic ==
  LET m == SubSeq(file, 1, Min(SizeofMagic, Len(file)))
  IN  m # ELFMAG /\ m # MH_MAGIC_64 /\ m # MH_CIGAM_64

\* C5: a run on a file whose first 4 bytes are neither the ELF magic nor a
\* 64-bit Mach-O magic never enters an extractor, and ends with a diagnostic on
\* standard error, exit status 1 and the file closed.
C5_UnknownMagicFails ==
  (f # "null" /\ UnknownMagic)
    => /\ entered = {}
       /\ pc \in {"magic", "exited"}
       /\ pc = "exited" => Failed /\ f = "closed" /\ fcloses = 1

C5_Witness ==
  pc = "exited" /\ Len(file) > SizeofMagic /\ UnknownMagic /\ f = "closed" /\ status = 1

\* The input holds a section with the target name of the build's decoder, and
\* bytes is its content.
TargetIs(bytes) ==
  \/ ~apple /\ input.fmt = "elf" /\ ElfExpected = <<"some", bytes>>
  \/ apple /\ input.fmt = "macho" /\ MachoExpected = <<"some", bytes>>

\* C6: every run ends with exit status 0 or 1; status 0 only when the target
\* section was found and its payload read in full and written to standard
\* output; every failure ends with status 1, a diagnostic on standard error
\* and nothing on standard output.
C6_ExitStatus ==
  Terminated
    => /\ pc = "exited"
       /\ status \in {0, 1}
       /\ status = 0 => TargetIs(stdout)
       /\ status = 1 => stderr # <<>> /\ stdout = <<>>

\* The e_shnum section headers have been read.
TableRead == heap["sections"] # "none" /\ Len(sections) = ehdr.e_shnum

\* C7: once the section-header table is read, e_shstrndx >= e_shnum makes the
\* extraction fail with an error, and the table is never indexed outside
\* 0..e_shnum-1.
C7_ShstrndxInTable ==
  /\ "index" \notin oob
  /\ (TableRead /\ ehdr.e_shstrndx >= ehdr.e_shnum)
       => /\ pc \in {"elf_strtab", "main_ret", "exited"}
          /\ pc = "exited" => Failed

\* The section headers whose names the scan has resolved so far.
Examined ==
  CASE pc = "elf_scan" -> 1..i
    [] pc = "elf_data" -> 1..(i + 1)
    [] OTHER -> {}

\* C8: in the name scan, a sh_name at or beyond the string table's length
\* makes the extraction fail, and resolving a name never reads a byte outside
\* the string table, also when no 0 byte follows the name offset (stated for
\* the runs whose string table was found through an index inside the table).
C8_NameInStrtab ==
  "index" \notin oob
    => /\ "name" \notin oob
       /\ \A k \in Examined : sections[k].sh_name < Len(strtab)

Overlap(a, alen, b, blen) == a < b + blen /\ b < a + alen

\* C9: in the load-command walk each next command is read from the start of
\* the current one plus its cmdsize, and the bytes of a command whose type is
\* not LC_SEGMENT_64 are never decoded as a segment or a section record.
C9_WalkInStep ==
  /\ \A k \in 1..(Len(walk) - 1) : walk[k + 1].start = walk[k].start + walk[k].cmdsize
  /\ \A k \in 1..Len(walk) :
       walk[k].cmd # LC_SEGMENT_64
         => \A d \in decoded : ~Overlap(d.at, d.len, walk[k].start, walk[k].cmdsize)

\* C10: when main returns after opening the file, the file has been closed
\* exactly once and every buffer that was allocated has been freed exactly
\* once; no buffer is used or freed when it is not live.
C10_Cleanup ==
  /\ ~heapErr
  /\ fcloses <= 1
  /\ (pc = "exited" /\ f # "null")
       => /\ f = "closed" /\ fcloses = 1
          /\ \A b \in DOMAIN heap : heap[b] # "live"

C10_Witness ==
  /\ pc = "exited" /\ status = 1 /\ fcloses = 1
  /\ \A b \in DOMAIN heap : heap[b] = "freed"

====
